---- MODULE Spec2Model ----
(***************************************************************************)
(* Model of the client reconciliation pipeline (streamlit_app.py and the   *)
(* command-line script "Master Client (Main).py").                         *)
(*                                                                         *)
(* Text values are sequences of one-character strings.  A missing value    *)
(* (NaN / None / pd.NA) is NullStr for text, NA for identifiers and plain  *)
(* status labels, NoDate for dates and NoClient for client ids.            *)
(***************************************************************************)
EXTENDS Integers, Sequences, FiniteSets, TLC

VARIABLES
    pc,             \* position in the script / in the function under test
    name,           \* argument of normalize_name
    norm_once,      \* normalize_name(name)
    norm_twice,     \* normalize_name(normalize_name(name))
    row,            \* argument "row" of fuzzy_match
    lookup_df,      \* argument "lookup_df" of fuzzy_match
    matched,        \* return value of fuzzy_match (an entry, or None)
    aloha1,         \* appointments table
    aloha2,         \* roster table
    zoho,           \* external status source A
    hirasmus,       \* external status source B
    last_service,   \* Insurance ID -> Last Date of Service
    insurance_map,  \* first-occurrence (Client ID, Insurance ID) rows
    aloha_main,     \* joined, then consolidated client records
    final           \* output table

vars == <<pc, name, norm_once, norm_twice, row, lookup_df, matched, aloha1,
          aloha2, zoho, hirasmus, last_service, insurance_map, aloha_main,
          final>>

(***************************************************************************)
(* Bounds of the model.                                                    *)
(***************************************************************************)
MaxLen == 4
MaxSrc == 2
MaxAppts == 2
MaxRoster == 2

(***************************************************************************)
(* Missing values.                                                         *)
(***************************************************************************)
NullStr == <<"<NA>">>
NA == "NA"
None == [isNone |-> TRUE]

Min(S) == CHOOSE x \in S : \A y \in S : x <= y
Max(S) == CHOOSE x \in S : \A y \in S : x >= y

(***************************************************************************)
(* Characters: str.lower, the regex classes \w and \s, code point order.   *)
(***************************************************************************)
UpperLetters == <<"A","B","C","D","E","F","G","H","I","J","K","L","M",
                  "N","O","P","Q","R","S","T","U","V","W","X","Y","Z">>
LowerLetters == <<"a","b","c","d","e","f","g","h","i","j","k","l","m",
                  "n","o","p","q","r","s","t","u","v","w","x","y","z">>
Digits == <<"0","1","2","3","4","5","6","7","8","9">>

Range(s) == {s[i] : i \in DOMAIN s}

LowerChar(c) ==
    IF c \in Range(UpperLetters)
    THEN LowerLetters[CHOOSE i \in DOMAIN UpperLetters : UpperLetters[i] = c]
    ELSE c

StrLower(s) == [i \in 1..Len(s) |-> LowerChar(s[i])]

IsWordChar(c) ==
    c \in Range(UpperLetters) \cup Range(LowerLetters) \cup Range(Digits) \cup {"_"}

IsSpace(c) == c \in {" ", "\t", "\n"}

\* code point order of the characters that can survive normalisation
CodePoints == <<"\t", "\n", " ">> \o Digits \o UpperLetters \o <<"_">> \o LowerLetters
Ord(c) == CHOOSE i \in DOMAIN CodePoints : CodePoints[i] = c

(***************************************************************************)
(* String helpers used by normalize_name.                                  *)
(***************************************************************************)
\* re.sub(r"[^\w\s]", "", s)
ReSubPunct(s) == SelectSeq(s, LAMBDA c : IsWordChar(c) \/ IsSpace(c))

\* re.sub(r"\s+", " ", s)
RECURSIVE ReSubSpaces(_)
ReSubSpaces(s) ==
    IF Len(s) = 0 THEN << >>
    ELSE LET n == Len(s)
             init == ReSubSpaces(SubSeq(s, 1, n - 1))
         IN  IF IsSpace(s[n])
             THEN IF n > 1 /\ IsSpace(s[n - 1]) THEN init ELSE Append(init, " ")
             ELSE Append(init, s[n])

\* str.strip()
StrStrip(s) ==
    LET idx == {i \in 1..Len(s) : ~IsSpace(s[i])}
    IN  IF idx = {} THEN << >> ELSE SubSeq(s, Min(idx), Max(idx))

\* str.split(sep) for a one-character separator
RECURSIVE StrSplit(_, _)
StrSplit(s, sep) ==
    LET idx == {i \in 1..Len(s) : s[i] = sep}
    IN  IF idx = {} THEN <<s>>
        ELSE <<SubSeq(s, 1, Min(idx) - 1)>>
             \o StrSplit(SubSeq(s, Min(idx) + 1, Len(s)), sep)

\* a variant of normalize_name that collapses and trims whitespace before
\* it strips the punctuation
normalize_name_reordered(nm) ==
    IF nm = NullStr THEN << >>
    ELSE LET lowered == StrLower(nm)
             spaced == StrStrip(ReSubSpaces(lowered))
             split == StrSplit(spaced, ",")
             parts == [i \in 1..Len(split) |-> StrStrip(split[i])]
             joined == IF Len(parts) = 2
                       THEN parts[2] \o <<" ">> \o parts[1]
                       ELSE spaced
         IN  ReSubPunct(joined)

normalize_name(nm) ==
    IF nm = NullStr THEN << >>
    ELSE LET lowered == StrLower(nm)
             cleaned == ReSubPunct(lowered)
             split == StrSplit(cleaned, ",")
             parts == [i \in 1..Len(split) |-> StrStrip(split[i])]
             joined == IF Len(parts) = 2
                       THEN parts[2] \o <<" ">> \o parts[1]
                       ELSE cleaned
         IN  StrStrip(ReSubSpaces(joined))

(***************************************************************************)
(* Specification SpecNorm: normalize_name applied once and twice to a      *)
(* bounded set of raw names.                                               *)
(***************************************************************************)
Alphabet == {"a", "b", "A", ",", ".", " ", "\t"}

BoundedText(chars, n) == UNION {[1..k -> chars] : k \in 0..n}

SmithCommaJohn == <<"S","m","i","t","h",","," ","J","o","h","n">>
JohnSmith == <<"J","o","h","n"," ","S","m","i","t","h">>
john_smith == <<"j","o","h","n"," ","s","m","i","t","h">>

NameInputs == {NullStr, SmithCommaJohn, JohnSmith} \cup BoundedText(Alphabet, MaxLen)

Idle ==
    /\ row = None /\ lookup_df = << >> /\ matched = None
    /\ aloha1 = << >> /\ aloha2 = << >> /\ zoho = << >> /\ hirasmus = << >>
    /\ last_service = << >> /\ insurance_map = << >> /\ aloha_main = << >>
    /\ final = << >>

InitNorm ==
    /\ pc = "norm_start"
    /\ name \in NameInputs
    /\ norm_once = << >>
    /\ norm_twice = << >>
    /\ Idle

ApplyNormalize ==
    /\ pc = "norm_start"
    /\ norm_once' = normalize_name(name)
    /\ pc' = "normalized"
    /\ UNCHANGED <<name, norm_twice, row, lookup_df, matched, aloha1, aloha2,
                   zoho, hirasmus, last_service, insurance_map, aloha_main, final>>

ApplyNormalizeAgain ==
    /\ pc = "normalized"
    /\ norm_twice' = normalize_name(norm_once)
    /\ pc' = "renormalized"
    /\ UNCHANGED <<name, norm_once, row, lookup_df, matched, aloha1, aloha2,
                   zoho, hirasmus, last_service, insurance_map, aloha_main, final>>

NextNorm == ApplyNormalize \/ ApplyNormalizeAgain

SpecNorm == InitNorm /\ [][NextNorm]_vars

(***************************************************************************)
(* Claims about normalize_name.                                            *)
(***************************************************************************)
\* lower-cased, punctuation-stripped, whitespace-collapsed, trimmed text
CleanPart(t) == StrStrip(ReSubSpaces(ReSubPunct(StrLower(t))))

CountOf(s, c) == Cardinality({i \in 1..Len(s) : s[i] = c})

OneCommaTwoParts(nm) ==
    /\ nm # NullStr
    /\ CountOf(nm, ",") = 1
    /\ LET p == StrSplit(nm, ",")
       IN  CleanPart(p[1]) # << >> /\ CleanPart(p[2]) # << >>

\* C1: a name with exactly one comma separating two non-empty parts
\* normalises to "secondPart firstPart" (lower-cased, punctuation-stripped);
\* in particular "Smith, John" and "John Smith" both normalise to "john smith".
C1_CommaReorder ==
    (pc = "normalized" /\ OneCommaTwoParts(name)) =>
        LET p == StrSplit(name, ",")
        IN  norm_once = CleanPart(p[2]) \o <<" ">> \o CleanPart(p[1])

\* C10: normalize_name is idempotent and total: a second application returns
\* the first result unchanged, a missing name gives the empty string, and
\* every input yields a text value.
C10_Idempotent ==
    /\ pc \in {"normalized", "renormalized"} =>
          /\ norm_once \in Seq(Range(CodePoints))
          /\ (name = NullStr => norm_once = << >>)
    /\ pc = "renormalized" => norm_twice = norm_once

\* C10 witness: a name with punctuation and surrounding whitespace has been
\* normalised twice and the result is a non-empty text.
C10_Witness ==
    /\ pc = "renormalized"
    /\ name = <<" ", "A", ".", " ">>
    /\ norm_once = <<"a">>
    /\ norm_twice = <<"a">>

(***************************************************************************)
(* rapidfuzz: fuzz.token_sort_ratio and process.extractOne, as called by   *)
(* fuzzy_match.  A score is the exact rational num/den on the 0..100 scale.*)
(***************************************************************************)
threshold == 90

\* str.split(): the whitespace-delimited tokens of s
RECURSIVE Tokens(_)
Tokens(s) ==
    LET t == StrStrip(s)
        sp == {i \in 1..Len(t) : IsSpace(t[i])}
    IN  IF Len(t) = 0 THEN << >>
        ELSE IF sp = {} THEN <<t>>
        ELSE <<SubSeq(t, 1, Min(sp) - 1)>> \o Tokens(SubSeq(t, Min(sp) + 1, Len(t)))

\* Python's ordering of str: by code point, a proper prefix first
TextLess(a, b) ==
    LET n == IF Len(a) < Len(b) THEN Len(a) ELSE Len(b)
        d == {i \in 1..n : a[i] # b[i]}
    IN  IF d = {} THEN Len(a) < Len(b) ELSE Ord(a[Min(d)]) < Ord(b[Min(d)])

RECURSIVE InsertToken(_, _)
InsertToken(t, ts) ==
    IF Len(ts) = 0 THEN <<t>>
    ELSE IF TextLess(ts[1], t) THEN <<ts[1]>> \o InsertToken(t, Tail(ts))
    ELSE <<t>> \o ts

\* sorted(tokens)
RECURSIVE SortTokens(_)
SortTokens(ts) ==
    IF Len(ts) = 0 THEN << >> ELSE InsertToken(ts[1], SortTokens(Tail(ts)))

\* " ".join(tokens)
RECURSIVE JoinTokens(_)
JoinTokens(ts) ==
    IF Len(ts) = 0 THEN << >>
    ELSE IF Len(ts) = 1 THEN ts[1]
    ELSE ts[1] \o <<" ">> \o JoinTokens(Tail(ts))

\* one row of the longest-common-subsequence table from the row above it:
\* L[i][j] = max(L[i-1][j], max over k <= j with b[k] = a[i] of L[i-1][k-1] + 1)
LcsRow(prev, ch, b) ==
    [j \in 1..Len(b) |->
        Max({prev[j]} \cup {(IF k = 1 THEN 0 ELSE prev[k - 1]) + 1 :
                               k \in {k \in 1..j : b[k] = ch}})]

RECURSIVE LcsRows(_, _, _)
LcsRows(a, b, i) ==
    IF i = 0 THEN [j \in 1..Len(b) |-> 0]
    ELSE LcsRow(LcsRows(a, b, i - 1), a[i], b)

LcsLen(a, b) == IF Len(b) = 0 THEN 0 ELSE LcsRows(a, b, Len(a))[Len(b)]

\* fuzz.ratio: 100 * (1 - indel_distance / (len1 + len2)),
\* indel_distance = len1 + len2 - 2 * LCS; two empty strings score 100
Ratio(a, b) ==
    IF Len(a) + Len(b) = 0 THEN [num |-> 100, den |-> 1]
    ELSE [num |-> 100 * 2 * LcsLen(a, b), den |-> Len(a) + Len(b)]

token_sort_ratio(s1, s2) ==
    Ratio(JoinTokens(SortTokens(Tokens(s1))), JoinTokens(SortTokens(Tokens(s2))))

ScoreLess(x, y) == x.num * y.den < y.num * x.den
ScoreAtLeast(x, n) == x.num >= n * x.den

\* The normalised names the matcher is exercised on.
john_smyth == <<"j","o","h","n"," ","s","m","y","t","h">>
jon_smyth == <<"j","o","n"," ","s","m","y","t","h">>
smith_john == <<"s","m","i","t","h"," ","j","o","h","n">>
MatchNames == {<< >>, john_smith, smith_john, john_smyth, jon_smyth}

ScoreTable == [a \in MatchNames, b \in MatchNames |-> token_sort_ratio(a, b)]
Score(a, b) == IF a \in MatchNames /\ b \in MatchNames
               THEN ScoreTable[a, b] ELSE token_sort_ratio(a, b)

\* process.extractOne(query, choices, scorer=fuzz.token_sort_ratio):
\* the first choice with the greatest score, or None without choices
extractOne(query, choices) ==
    IF Len(choices) = 0 THEN None
    ELSE LET best == CHOOSE i \in 1..Len(choices) :
                        /\ \A k \in 1..Len(choices) :
                              ~ScoreLess(Score(query, choices[i]), Score(query, choices[k]))
                        /\ \A k \in 1..(i - 1) :
                              ScoreLess(Score(query, choices[k]), Score(query, choices[i]))
         IN  [isNone |-> FALSE, choice |-> choices[best],
              score |-> Score(query, choices[best]), index |-> best]

IsNone(x) == x.isNone

Entry(e) == [isNone |-> FALSE, Insurance_ID |-> e.Insurance_ID,
             norm_name |-> e.norm_name, Status |-> e.Status]

\* variant: the fuzzy name match is tried before the Insurance ID
fuzzy_match_namefirst(r, lookup) ==
    LET hit == {i \in 1..Len(lookup) : lookup[i].Insurance_ID = r.Insurance_ID}
        names == [i \in 1..Len(lookup) |-> lookup[i].norm_name]
        m == extractOne(r.norm_name, names)
    IN  IF ~IsNone(m) /\ ScoreAtLeast(m.score, threshold)
        THEN Entry(lookup[Min({i \in 1..Len(lookup) : lookup[i].norm_name = m.choice})])
        ELSE IF r.Insurance_ID # NA /\ hit # {}
        THEN Entry(lookup[Min(hit)])
        ELSE None

\* variant: a non-null Insurance ID without a hit gives up
fuzzy_match_nofallthrough(r, lookup) ==
    LET hit == {i \in 1..Len(lookup) : lookup[i].Insurance_ID = r.Insurance_ID}
        names == [i \in 1..Len(lookup) |-> lookup[i].norm_name]
        m == extractOne(r.norm_name, names)
    IN  IF r.Insurance_ID # NA
        THEN (IF hit # {} THEN Entry(lookup[Min(hit)]) ELSE None)
        ELSE IF ~IsNone(m) /\ ScoreAtLeast(m.score, threshold)
        THEN Entry(lookup[Min({i \in 1..Len(lookup) : lookup[i].norm_name = m.choice})])
        ELSE None

\* variant: the threshold is exclusive
fuzzy_match_strict(r, lookup) ==
    LET hit == {i \in 1..Len(lookup) : lookup[i].Insurance_ID = r.Insurance_ID}
        names == [i \in 1..Len(lookup) |-> lookup[i].norm_name]
        m == extractOne(r.norm_name, names)
    IN  IF r.Insurance_ID # NA /\ hit # {}
        THEN Entry(lookup[Min(hit)])
        ELSE IF ~IsNone(m) /\ ScoreAtLeast(m.score, threshold + 1)
        THEN Entry(lookup[Min({i \in 1..Len(lookup) : lookup[i].norm_name = m.choice})])
        ELSE None

fuzzy_match(r, lookup) ==
    LET hit == {i \in 1..Len(lookup) : lookup[i].Insurance_ID = r.Insurance_ID}
        names == [i \in 1..Len(lookup) |-> lookup[i].norm_name]
        m == extractOne(r.norm_name, names)
    IN  IF r.Insurance_ID # NA /\ hit # {}
        THEN Entry(lookup[Min(hit)])
        ELSE IF ~IsNone(m) /\ ScoreAtLeast(m.score, threshold)
        THEN Entry(lookup[Min({i \in 1..Len(lookup) : lookup[i].norm_name = m.choice})])
        ELSE None

\* z["Status"] if z is not None else pd.NA
StatusOf(m) == IF IsNone(m) THEN NA ELSE m.Status

(***************************************************************************)
(* Specification SpecMatch: fuzzy_match applied to one client row and one  *)
(* bounded status source.                                                  *)
(***************************************************************************)
BoundedSeq(S, n) == UNION {[1..k -> S] : k \in 0..n}

MatchRows == [Insurance_ID : {NA, "I1", "I3"},
              norm_name : {<< >>, john_smith, jon_smyth}]
MatchEntries == [Insurance_ID : {NA, "I1"},
                 norm_name : {john_smith, smith_john, john_smyth, jon_smyth},
                 Status : {NA, "Active", "Paused"}]

InitMatch ==
    /\ pc = "match_start"
    /\ row \in MatchRows
    /\ lookup_df \in BoundedSeq(MatchEntries, MaxSrc)
    /\ matched = None
    /\ name = NullStr /\ norm_once = << >> /\ norm_twice = << >>
    /\ aloha1 = << >> /\ aloha2 = << >> /\ zoho = << >> /\ hirasmus = << >>
    /\ last_service = << >> /\ insurance_map = << >> /\ aloha_main = << >>
    /\ final = << >>

ApplyFuzzyMatch ==
    /\ pc = "match_start"
    /\ matched' = fuzzy_match(row, lookup_df)
    /\ pc' = "matched"
    /\ UNCHANGED <<name, norm_once, norm_twice, row, lookup_df, aloha1, aloha2,
                   zoho, hirasmus, last_service, insurance_map, aloha_main, final>>

NextMatch == ApplyFuzzyMatch

SpecMatch == InitMatch /\ [][NextMatch]_vars

(***************************************************************************)
(* Claims about fuzzy_match.                                               *)
(***************************************************************************)
ExactHits == {i \in 1..Len(lookup_df) :
                 row.Insurance_ID # NA /\ lookup_df[i].Insurance_ID = row.Insurance_ID}

NameScore(i) == Score(row.norm_name, lookup_df[i].norm_name)

\* indices whose name score is the maximum over the source
BestIdx == {i \in 1..Len(lookup_df) :
               \A k \in 1..Len(lookup_df) : ~ScoreLess(NameScore(i), NameScore(k))}

\* C2: when the client's Insurance ID is non-null and the source holds an
\* entry with an equal Insurance ID, the returned status is that of the first
\* such entry in source order, whatever the name scores.
C2_ExactIdPrecedence ==
    (pc = "matched" /\ ExactHits # {}) =>
        /\ ~IsNone(matched)
        /\ StatusOf(matched) = lookup_df[Min(ExactHits)].Status

\* C2 witness: the first entry scores 100 on name with another Insurance ID,
\* the second entry has the client's Insurance ID and a lower name score, and
\* the second entry's status is returned.
C2_Witness ==
    /\ pc = "matched"
    /\ Len(lookup_df) = 2
    /\ row.Insurance_ID = "I1"
    /\ lookup_df[1].Insurance_ID = NA
    /\ NameScore(1) = [num |-> 2000, den |-> 20]
    /\ lookup_df[2].Insurance_ID = "I1"
    /\ ScoreLess(NameScore(2), [num |-> 90, den |-> 1])
    /\ lookup_df[1].Status = "Paused"
    /\ lookup_df[2].Status = "Active"
    /\ StatusOf(matched) = "Active"

\* C3: a client with a non-null Insurance ID that equals no entry's ID gets
\* exactly the result a client with the same normalised name and a null
\* Insurance ID gets: the status of the first best-scoring entry when that
\* score reaches the threshold.
C3_FallThrough ==
    (pc = "matched" /\ row.Insurance_ID # NA /\ ExactHits = {}) =>
        /\ matched = fuzzy_match([row EXCEPT !.Insurance_ID = NA], lookup_df)
        /\ (Len(lookup_df) > 0 /\ ScoreAtLeast(NameScore(Min(BestIdx)), 90))
              => (~IsNone(matched) /\ matched.norm_name = lookup_df[Min(BestIdx)].norm_name)

\* C3 witness: a client whose non-null Insurance ID matches nothing is
\* matched by name and gets a non-null status.
C3_Witness ==
    /\ pc = "matched"
    /\ row.Insurance_ID = "I3"
    /\ Len(lookup_df) = 2
    /\ lookup_df[1].Insurance_ID = "I1"
    /\ ~IsNone(matched)
    /\ StatusOf(matched) = "Active"

\* C4: without an exact-ID hit the result is the status of the first entry
\* whose name score is the maximum over the source when that maximum is
\* >= 90, and null when it is below 90 or the source is empty.
C4_ThresholdAndTie ==
    (pc = "matched" /\ ExactHits = {}) =>
        IF Len(lookup_df) > 0 /\ ScoreAtLeast(NameScore(Min(BestIdx)), 90)
        THEN /\ ~IsNone(matched)
             /\ StatusOf(matched) = lookup_df[Min(BestIdx)].Status
        ELSE /\ IsNone(matched)
             /\ StatusOf(matched) = NA

\* C4 witness: two entries tie at a score of exactly 90 and the first one's
\* status is returned.
C4_Witness ==
    /\ pc = "matched"
    /\ ExactHits = {}
    /\ Len(lookup_df) = 2
    /\ NameScore(1) = [num |-> 1800, den |-> 20]
    /\ NameScore(2) = [num |-> 1800, den |-> 20]
    /\ lookup_df[1].Status = "Paused"
    /\ lookup_df[2].Status = "Active"
    /\ StatusOf(matched) = "Paused"

\* a best score just below the threshold (16/18 = 88.9) is rejected
C4_BelowThreshold ==
    /\ pc = "matched"
    /\ Len(lookup_df) = 1
    /\ ExactHits = {}
    /\ ScoreLess(NameScore(1), [num |-> 90, den |-> 1])
    /\ ~ScoreLess(NameScore(1), [num |-> 84, den |-> 1])
    /\ IsNone(matched)

(***************************************************************************)
(* The reconciliation script.  A table is [cols, rows]: the set of column  *)
(* names that were read and the sequence of rows; a row holds the missing  *)
(* value in the field of every column that is absent.  Indexing an absent  *)
(* column raises KeyError, which ends the run in pc = "failed".            *)
(***************************************************************************)
NoDate == 0
NoClient == 0

\* dateutil's parser.parse(str(val)).date() on the raw values used here;
\* a date is the integer yyyymmdd, anything unparseable gives None
parse_date(val) ==
    CASE val = "2023-01-01" -> 20230101
      [] val = "06/15/2023" -> 20230615
      [] val = "March 5, 2024" -> 20240305
      [] OTHER -> NoDate

\* the rows of s at the indices in S, in row order
RECURSIVE PickIdx(_, _)
PickIdx(s, S) ==
    IF S = {} THEN << >> ELSE Append(PickIdx(s, S \ {Max(S)}), s[Max(S)])

RECURSIVE Flatten(_)
Flatten(ss) == IF Len(ss) = 0 THEN << >> ELSE ss[1] \o Flatten(Tail(ss))

\* ascending order of a set of integers (groupby sorts its keys)
RECURSIVE SortedSeq(_)
SortedSeq(S) == IF S = {} THEN << >> ELSE <<Min(S)>> \o SortedSeq(S \ {Min(S)})

\* Series.astype(str): NaN becomes the text "nan"
AsTypeStr(v) == IF v = NullStr THEN <<"n","a","n">> ELSE v

\* str.contains for a literal pattern
StrContains(s, pat) ==
    \E i \in 1..(Len(s) - Len(pat) + 1) : SubSeq(s, i, i + Len(pat) - 1) = pat

pat_cancel == <<"c","a","n","c","e","l">>
pat_no_show == <<"n","o"," ","s","h","o","w">>
pat_noshow == <<"n","o","s","h","o","w">>

\* variant: the status text is matched without lower-casing it
IsBadStatus_casesensitive(st) ==
    LET t == AsTypeStr(st)
    IN  StrContains(t, pat_cancel) \/ StrContains(t, pat_no_show)
        \/ StrContains(t, pat_noshow)

\* .astype(str).str.lower().str.contains(r"cancel|no show|noshow", na=False)
IsBadStatus(st) ==
    LET t == StrLower(AsTypeStr(st))
    IN  StrContains(t, pat_cancel) \/ StrContains(t, pat_no_show)
        \/ StrContains(t, pat_noshow)

\* sort order of the Insurance IDs used here
InsOrder == <<"I1", "I2", "I3">>

\* lines 111-124: dropna, the status filter, groupby("Insurance ID").max()
LastService(rows, hasStatus) ==
    LET appts == SelectSeq(rows, LAMBDA r : r.Insurance_ID # NA /\ r.Appt_Date # NoDate)
        kept == IF hasStatus
                THEN SelectSeq(appts, LAMBDA r : ~IsBadStatus(r.Status))
                ELSE appts
        ids == {kept[i].Insurance_ID : i \in 1..Len(kept)}
        keys == SelectSeq(InsOrder, LAMBDA id : id \in ids)
    IN  [k \in 1..Len(keys) |->
            [Insurance_ID |-> keys[k],
             Last_Date |-> Max({kept[i].Appt_Date :
                                  i \in {i \in 1..Len(kept) : kept[i].Insurance_ID = keys[k]}})]]

\* variant: drop_duplicates(subset=["Client ID"], keep="last")
DropDuplicates_keeplast(rows) ==
    LET keep == {i \in 1..Len(rows) :
                    \A k \in (i + 1)..Len(rows) : rows[k].Client_ID # rows[i].Client_ID}
        picked == PickIdx(rows, keep)
    IN  [i \in 1..Len(picked) |->
            [Client_ID |-> picked[i].Client_ID, Insurance_ID |-> picked[i].Insurance_ID]]

\* aloha1[["Client ID", "Insurance ID"]].drop_duplicates(subset=["Client ID"], keep="first")
DropDuplicates(rows) ==
    LET keep == {i \in 1..Len(rows) :
                    \A k \in 1..(i - 1) : rows[k].Client_ID # rows[i].Client_ID}
        picked == PickIdx(rows, keep)
    IN  [i \in 1..Len(picked) |->
            [Client_ID |-> picked[i].Client_ID, Insurance_ID |-> picked[i].Insurance_ID]]

\* aloha2.merge(insurance_map, on="Client ID", how="left")
MergeOnClient(left, right) ==
    Flatten([i \in 1..Len(left) |->
        LET m == PickIdx(right, {k \in 1..Len(right) : right[k].Client_ID = left[i].Client_ID})
        IN  IF Len(m) = 0
            THEN <<[Client_ID |-> left[i].Client_ID, Client |-> left[i].Client,
                    Status |-> left[i].Status, Insurance_ID |-> NA]>>
            ELSE [k \in 1..Len(m) |->
                    [Client_ID |-> left[i].Client_ID, Client |-> left[i].Client,
                     Status |-> left[i].Status, Insurance_ID |-> m[k].Insurance_ID]]])

\* variant: the first value of the group, null or not
first_non_null_first(s, null) == IF Len(s) = 0 THEN null ELSE s[1]

\* first_non_null: s.dropna().iloc[0], or pd.NA for an all-null group
first_non_null(s, null) ==
    LET nn == SelectSeq(s, LAMBDA v : v # null)
    IN  IF Len(nn) = 0 THEN null ELSE nn[1]

\* variant: groupby(..., sort=False), groups in order of first appearance
GroupKeys_unsorted(rows) ==
    LET first == {i \in 1..Len(rows) :
                     /\ rows[i].Client_ID # NoClient
                     /\ \A k \in 1..(i - 1) : rows[k].Client_ID # rows[i].Client_ID}
    IN  [i \in 1..Cardinality(first) |-> PickIdx(rows, first)[i].Client_ID]

\* the group keys of groupby("Client ID"): ascending, null keys dropped
GroupKeys(rows) ==
    SortedSeq({rows[i].Client_ID : i \in 1..Len(rows)} \ {NoClient})

\* groupby("Client ID", as_index=False).agg({...: first_non_null}).rename(...)
GroupAgg(rows) ==
    LET keys == GroupKeys(rows)
    IN  [k \in 1..Len(keys) |->
            LET g == SelectSeq(rows, LAMBDA r : r.Client_ID = keys[k])
            IN  [Client_ID |-> keys[k],
                 Client |-> first_non_null([i \in 1..Len(g) |-> g[i].Client], NullStr),
                 Insurance_ID |-> first_non_null([i \in 1..Len(g) |-> g[i].Insurance_ID], NA),
                 Aloha_Status |-> first_non_null([i \in 1..Len(g) |-> g[i].Status], NA)]]

\* aloha_main.merge(last_service, on="Insurance ID", how="left"), then norm_name
MergeOnInsurance(left, right) ==
    Flatten([i \in 1..Len(left) |->
        LET m == PickIdx(right, {k \in 1..Len(right) :
                                    right[k].Insurance_ID = left[i].Insurance_ID})
            base(d) == [Client_ID |-> left[i].Client_ID, Client |-> left[i].Client,
                        Insurance_ID |-> left[i].Insurance_ID,
                        Aloha_Status |-> left[i].Aloha_Status,
                        Last_Date |-> d, norm_name |-> normalize_name(left[i].Client)]
        IN  IF Len(m) = 0 THEN <<base(NoDate)>>
            ELSE [k \in 1..Len(m) |-> base(m[k].Last_Date)]])

\* source["norm_name"] = source["Client"].apply(normalize_name)
WithNormName(t) ==
    [cols |-> t.cols \cup {"norm_name"},
     rows |-> [i \in 1..Len(t.rows) |->
                 [Client |-> t.rows[i].Client, Insurance_ID |-> t.rows[i].Insurance_ID,
                  Status |-> t.rows[i].Status,
                  norm_name |-> normalize_name(t.rows[i].Client)]]]

\* KeyError raised while matching row r against source t: fuzzy_match reads
\* lookup_df["Insurance ID"] only for a non-null ID, and the loop reads
\* z["Status"] only when a match was returned
MatchKeyError(r, t) ==
    \/ r.Insurance_ID # NA /\ "Insurance ID" \notin t.cols
    \/ /\ ~(r.Insurance_ID # NA /\ "Insurance ID" \notin t.cols)
       /\ ~IsNone(fuzzy_match(r, t.rows))
       /\ "Status" \notin t.cols

\* variant: the roster's Status column is optional in the aggregation
AggColumns_optstatus == {"Client", "Insurance ID"}

\* the columns named in the .agg({...}) dictionary
AggColumns == {"Client", "Insurance ID", "Status"}

PipeVars == <<aloha1, aloha2, zoho, hirasmus, last_service, insurance_map,
              aloha_main, final>>
FnVars == <<name, norm_once, norm_twice, row, lookup_df, matched>>

Fail == pc' = "failed" /\ UNCHANGED PipeVars

\* line 105: aloha2.rename(columns={"Client Id": "Client ID"})
RenameClientId ==
    /\ pc = "start"
    /\ aloha2' = [aloha2 EXCEPT !.cols =
                     IF "Client Id" \in @ THEN (@ \ {"Client Id"}) \cup {"Client ID"} ELSE @]
    /\ pc' = "loaded"
    /\ UNCHANGED <<aloha1, zoho, hirasmus, last_service, insurance_map, aloha_main, final>>
    /\ UNCHANGED FnVars

\* lines 110-124: STEP 1, last date of service
Step1 ==
    /\ pc = "loaded"
    /\ IF ~({"Appt. Date", "Insurance ID"} \subseteq aloha1.cols)
       THEN Fail
       ELSE /\ aloha1' = [aloha1 EXCEPT !.rows =
                            [i \in 1..Len(@) |->
                                [@[i] EXCEPT !.Appt_Date = parse_date(@)]]]
            /\ last_service' = LastService(aloha1'.rows, "Status" \in aloha1.cols)
            /\ pc' = "step1"
            /\ UNCHANGED <<aloha2, zoho, hirasmus, insurance_map, aloha_main, final>>
    /\ UNCHANGED FnVars

\* lines 129-132: insurance_map
BuildInsuranceMap ==
    /\ pc = "step1"
    /\ IF "Client ID" \notin aloha1.cols
       THEN Fail
       ELSE /\ insurance_map' = DropDuplicates(aloha1.rows)
            /\ pc' = "mapped"
            /\ UNCHANGED <<aloha1, aloha2, zoho, hirasmus, last_service, aloha_main, final>>
    /\ UNCHANGED FnVars

\* line 134: the roster left-joined to the map
MergeRoster ==
    /\ pc = "mapped"
    /\ IF "Client ID" \notin aloha2.cols
       THEN Fail
       ELSE /\ aloha_main' = [cols |-> aloha2.cols \cup {"Insurance ID"},
                              rows |-> MergeOnClient(aloha2.rows, insurance_map)]
            /\ pc' = "merged"
            /\ UNCHANGED <<aloha1, aloha2, zoho, hirasmus, last_service, insurance_map, final>>
    /\ UNCHANGED FnVars

\* lines 136-145: one record per Client ID
Consolidate ==
    /\ pc = "merged"
    /\ IF ~(AggColumns \subseteq aloha_main.cols)
       THEN Fail
       ELSE /\ aloha_main' = [cols |-> {"Client ID", "Client", "Insurance ID", "Aloha Status"},
                              rows |-> GroupAgg(aloha_main.rows)]
            /\ pc' = "consolidated"
            /\ UNCHANGED <<aloha1, aloha2, zoho, hirasmus, last_service, insurance_map, final>>
    /\ UNCHANGED FnVars

\* lines 147-148: last date of service and norm_name attached
AttachLastService ==
    /\ pc = "consolidated"
    /\ aloha_main' = [cols |-> aloha_main.cols \cup {"Last Date of Service", "norm_name"},
                      rows |-> MergeOnInsurance(aloha_main.rows, last_service)]
    /\ pc' = "dated"
    /\ UNCHANGED <<aloha1, aloha2, zoho, hirasmus, last_service, insurance_map, final>>
    /\ UNCHANGED FnVars

\* lines 153-154: STEP 3
PrepSources ==
    /\ pc = "dated"
    /\ IF "Client" \notin zoho.cols \/ "Client" \notin hirasmus.cols
       THEN Fail
       ELSE /\ zoho' = WithNormName(zoho)
            /\ hirasmus' = WithNormName(hirasmus)
            /\ pc' = "prepared"
            /\ UNCHANGED <<aloha1, aloha2, last_service, insurance_map, aloha_main, final>>
    /\ UNCHANGED FnVars

\* lines 159-178: STEP 4 and the final projection
AttachStatuses ==
    /\ pc = "prepared"
    /\ IF \E i \in 1..Len(aloha_main.rows) :
             MatchKeyError(aloha_main.rows[i], zoho) \/ MatchKeyError(aloha_main.rows[i], hirasmus)
       THEN Fail
       ELSE /\ final' = [i \in 1..Len(aloha_main.rows) |->
                           LET r == aloha_main.rows[i]
                           IN  [Client |-> r.Client,
                                Last_Date |-> r.Last_Date,
                                Zoho_Status |-> StatusOf(fuzzy_match(r, zoho.rows)),
                                Aloha_Status |-> r.Aloha_Status,
                                HiRasmus_Status |-> StatusOf(fuzzy_match(r, hirasmus.rows))]]
            /\ pc' = "done"
            /\ UNCHANGED <<aloha1, aloha2, zoho, hirasmus, last_service, insurance_map, aloha_main>>
    /\ UNCHANGED FnVars

Next ==
    \/ RenameClientId
    \/ Step1
    \/ BuildInsuranceMap
    \/ MergeRoster
    \/ Consolidate
    \/ AttachLastService
    \/ PrepSources
    \/ AttachStatuses

(***************************************************************************)
(* Input data.                                                             *)
(***************************************************************************)
Completed == <<"C","o","m","p","l","e","t","e","d">>
NoShow == <<"N","o"," ","S","h","o","w">>
Cancelled == <<"C","a","n","c","e","l","l","e","d">>
JohnSmyth == <<"J","o","h","n"," ","S","m","y","t","h">>

ApptCols == {"Client ID", "Insurance ID", "Appt. Date", "Status"}
RosterCols == {"Client ID", "Client", "Status"}
SourceCols == {"Client", "Insurance ID", "Status"}

FnIdle ==
    /\ name = NullStr /\ norm_once = << >> /\ norm_twice = << >>
    /\ row = None /\ lookup_df = << >> /\ matched = None

PipeStart ==
    /\ pc = "start"
    /\ last_service = << >>
    /\ insurance_map = << >>
    /\ aloha_main = [cols |-> {}, rows |-> << >>]
    /\ final = << >>
    /\ FnIdle

ZohoRows ==
    << [Client |-> JohnSmyth, Insurance_ID |-> "I1", Status |-> "Dropped"],
       [Client |-> JohnSmith, Insurance_ID |-> NA, Status |-> "Paused"] >>
HiRasmusRows ==
    << [Client |-> SmithCommaJohn, Insurance_ID |-> NA, Status |-> "Active"],
       [Client |-> NullStr, Insurance_ID |-> "I2", Status |-> NA] >>

RosterFixed ==
    << [Client_ID |-> 2, Client |-> SmithCommaJohn, Status |-> NA],
       [Client_ID |-> 1, Client |-> JohnSmith, Status |-> "Active"],
       [Client_ID |-> 2, Client |-> NullStr, Status |-> "Paused"] >>

RosterOne ==
    << [Client_ID |-> 1, Client |-> JohnSmith, Status |-> "Active"] >>

ApptsA ==
    << [Client_ID |-> 2, Insurance_ID |-> "I2", Appt_Date |-> "06/15/2023", Status |-> Completed],
       [Client_ID |-> 1, Insurance_ID |-> NA, Appt_Date |-> "2023-01-01", Status |-> Completed],
       [Client_ID |-> 1, Insurance_ID |-> "I1", Appt_Date |-> "March 5, 2024", Status |-> NoShow],
       [Client_ID |-> 2, Insurance_ID |-> "I2", Appt_Date |-> "2023-01-01", Status |-> NullStr] >>
ApptsB ==
    << [Client_ID |-> 1, Insurance_ID |-> "I1", Appt_Date |-> "2023-01-01", Status |-> Completed],
       [Client_ID |-> 2, Insurance_ID |-> "I1", Appt_Date |-> "06/15/2023", Status |-> Completed],
       [Client_ID |-> 1, Insurance_ID |-> "I2", Appt_Date |-> "n/a", Status |-> Cancelled] >>

(***************************************************************************)
(* Specification Spec: the script on a bounded roster, with one of two     *)
(* appointment tables and fixed status sources.                            *)
(***************************************************************************)
RosterRows == [Client_ID : {NoClient, 1, 2},
               Client : {NullStr, JohnSmith, SmithCommaJohn},
               Status : {NA, "Active", "Paused"}]

Init ==
    /\ PipeStart
    /\ aloha1 \in {[cols |-> ApptCols, rows |-> ApptsA], [cols |-> ApptCols, rows |-> ApptsB]}
    /\ \E rows \in BoundedSeq(RosterRows, MaxRoster) :
          aloha2 = [cols |-> RosterCols, rows |-> rows]
    /\ zoho = [cols |-> SourceCols, rows |-> ZohoRows]
    /\ hirasmus = [cols |-> SourceCols, rows |-> HiRasmusRows]

Spec == Init /\ [][Next]_vars

(***************************************************************************)
(* Specification SpecLDS: the script on a bounded appointment table of one *)
(* client, with or without a Status column.                                *)
(***************************************************************************)
\* one row without Insurance ID stands for all of them: dropna removes it
\* whatever its date and status
ApptRowsLDS(hasStatus) ==
    LET statuses == IF hasStatus THEN {NullStr, Completed, NoShow, Cancelled} ELSE {NullStr}
    IN  [Client_ID : {1},
         Insurance_ID : {"I1", "I2"},
         Appt_Date : {"2023-01-01", "06/15/2023", "n/a"},
         Status : statuses]
        \cup [Client_ID : {1}, Insurance_ID : {NA}, Appt_Date : {"March 5, 2024"},
              Status : IF hasStatus THEN {Completed} ELSE {NullStr}]

InitLDS ==
    /\ PipeStart
    /\ \E hasStatus \in BOOLEAN :
          \E rows \in BoundedSeq(ApptRowsLDS(hasStatus), MaxAppts) :
             aloha1 = [cols |-> IF hasStatus THEN ApptCols ELSE ApptCols \ {"Status"},
                       rows |-> rows]
    /\ aloha2 = [cols |-> RosterCols, rows |-> RosterOne]
    /\ zoho = [cols |-> SourceCols, rows |-> ZohoRows]
    /\ hirasmus = [cols |-> SourceCols, rows |-> HiRasmusRows]

SpecLDS == InitLDS /\ [][Next]_vars

(***************************************************************************)
(* Specification SpecMap: the script on a bounded appointment table of two *)
(* clients and a fixed roster.                                             *)
(***************************************************************************)
ApptRowsMap ==
    [Client_ID : {1, 2},
     Insurance_ID : {NA, "I1", "I2"},
     Appt_Date : {"2023-01-01", "n/a"},
     Status : {Completed, NoShow}]

InitMap ==
    /\ PipeStart
    /\ \E rows \in BoundedSeq(ApptRowsMap, MaxAppts) :
          aloha1 = [cols |-> ApptCols, rows |-> rows]
    /\ aloha2 = [cols |-> RosterCols, rows |-> RosterFixed]
    /\ zoho = [cols |-> SourceCols, rows |-> ZohoRows]
    /\ hirasmus = [cols |-> SourceCols, rows |-> HiRasmusRows]

SpecMap == InitMap /\ [][Next]_vars

(***************************************************************************)
(* Claims about the script.                                                *)
(***************************************************************************)
AfterStep1 == pc \in {"step1", "mapped", "merged", "consolidated", "dated", "prepared", "done"}
AfterConsolidate == pc \in {"consolidated", "dated", "prepared", "done"}
AfterDated == pc \in {"dated", "prepared", "done"}

\* the status text, lower-cased, contains "cancel", "no show" or "noshow"
ExcludedStatus(st) ==
    /\ st # NullStr
    /\ \E pat \in {pat_cancel, pat_no_show, pat_noshow} : StrContains(StrLower(st), pat)

\* parsed dates of the appointment rows of an Insurance ID that count
ServiceDates(id) ==
    {aloha1.rows[i].Appt_Date :
        i \in {i \in 1..Len(aloha1.rows) :
                  /\ aloha1.rows[i].Insurance_ID = id
                  /\ aloha1.rows[i].Appt_Date # NoDate
                  /\ ~ExcludedStatus(aloha1.rows[i].Status)}}

ExpectedLastDate(id) ==
    IF id = NA \/ ServiceDates(id) = {} THEN NoDate ELSE Max(ServiceDates(id))

\* C5: for every Insurance ID the last date of service is the maximum parsed
\* date over its rows with a parseable date and a status that does not
\* contain "cancel", "no show" or "noshow" (a missing status is kept); an ID
\* without such a row has no last date.
C5_LastDateOfService ==
    /\ AfterStep1 =>
          \A id \in Range(InsOrder) :
             LET at == {k \in 1..Len(last_service) : last_service[k].Insurance_ID = id}
             IN  IF ServiceDates(id) = {}
                 THEN at = {}
                 ELSE /\ Cardinality(at) = 1
                      /\ \A k \in at : last_service[k].Last_Date = Max(ServiceDates(id))
    /\ AfterDated =>
          \A i \in 1..Len(aloha_main.rows) :
             aloha_main.rows[i].Last_Date = ExpectedLastDate(aloha_main.rows[i].Insurance_ID)

\* C5 witness: I1 has a completed appointment on 2023-01-01 and a later
\* "No Show" on 2023-06-15, and its last date of service is 2023-01-01.
C5_Witness ==
    /\ pc = "done"
    /\ Len(aloha1.rows) = 2
    /\ aloha1.rows[1] = [Client_ID |-> 1, Insurance_ID |-> "I1",
                         Appt_Date |-> 20230101, Status |-> Completed]
    /\ aloha1.rows[2] = [Client_ID |-> 1, Insurance_ID |-> "I1",
                         Appt_Date |-> 20230615, Status |-> NoShow]
    /\ last_service = <<[Insurance_ID |-> "I1", Last_Date |-> 20230101]>>
    /\ final[1].Last_Date = 20230101

RosterIds == {aloha2.rows[i].Client_ID : i \in 1..Len(aloha2.rows)} \ {NoClient}

RosterIdx(cid) == {i \in 1..Len(aloha2.rows) : aloha2.rows[i].Client_ID = cid}

\* Insurance ID the join gives to a roster row of client cid
JoinedIns(cid) ==
    LET at == {k \in 1..Len(insurance_map) : insurance_map[k].Client_ID = cid}
    IN  IF at = {} THEN NA ELSE insurance_map[Min(at)].Insurance_ID

\* C6: for every Client ID of the roster the consolidated record holds, for
\* name, Insurance ID and status independently, the first non-null value
\* among the joined roster rows of that Client ID in row order, and null
\* when every value of the group is null.
C6_FirstNonNull ==
    AfterConsolidate =>
        \A cid \in RosterIds :
           \E k \in 1..Len(aloha_main.rows) :
              LET rec == aloha_main.rows[k]
                  named == {i \in RosterIdx(cid) : aloha2.rows[i].Client # NullStr}
                  stated == {i \in RosterIdx(cid) : aloha2.rows[i].Status # NA}
              IN  /\ rec.Client_ID = cid
                  /\ rec.Client = IF named = {} THEN NullStr
                                  ELSE aloha2.rows[Min(named)].Client
                  /\ rec.Aloha_Status = IF stated = {} THEN NA
                                        ELSE aloha2.rows[Min(stated)].Status
                  /\ rec.Insurance_ID = JoinedIns(cid)

\* C6 witness: client 1 has the status sequence (null, "Active"), client 2 is
\* not involved, and the consolidated status of client 1 is "Active" while
\* its name is that of the second row.
C6_Witness ==
    /\ pc = "done"
    /\ Len(aloha2.rows) = 2
    /\ aloha2.rows[1] = [Client_ID |-> 1, Client |-> NullStr, Status |-> NA]
    /\ aloha2.rows[2] = [Client_ID |-> 1, Client |-> JohnSmith, Status |-> "Active"]
    /\ Len(aloha_main.rows) = 1
    /\ aloha_main.rows[1].Aloha_Status = "Active"
    /\ aloha_main.rows[1].Client = JohnSmith
    /\ final[1].Aloha_Status = "Active"

\* first non-null wins: the status sequence ("Active", "Paused") gives "Active"
C6_OrderSensitive ==
    /\ pc = "done"
    /\ Len(aloha2.rows) = 2
    /\ aloha2.rows[1].Client_ID = 2 /\ aloha2.rows[1].Status = "Active"
    /\ aloha2.rows[2].Client_ID = 2 /\ aloha2.rows[2].Status = "Paused"
    /\ final[1].Aloha_Status = "Active"

ApptIdx(cid) == {i \in 1..Len(aloha1.rows) : aloha1.rows[i].Client_ID = cid}

\* C7: the Insurance ID attached to a client that occurs in the appointment
\* rows is that of the first appointment row with its Client ID in source
\* order; later rows of the same Client ID are ignored.
C7_FirstOccurrenceWins ==
    /\ pc \in {"mapped", "merged", "consolidated", "dated", "prepared", "done"} =>
          \A cid \in {aloha1.rows[i].Client_ID : i \in 1..Len(aloha1.rows)} :
             LET at == {k \in 1..Len(insurance_map) : insurance_map[k].Client_ID = cid}
             IN  /\ Cardinality(at) = 1
                 /\ \A k \in at :
                       insurance_map[k].Insurance_ID = aloha1.rows[Min(ApptIdx(cid))].Insurance_ID
    /\ AfterConsolidate =>
          \A k \in 1..Len(aloha_main.rows) :
             LET cid == aloha_main.rows[k].Client_ID
             IN  aloha_main.rows[k].Insurance_ID =
                    IF ApptIdx(cid) = {} THEN NA
                    ELSE aloha1.rows[Min(ApptIdx(cid))].Insurance_ID

\* C7 witness: client 2 has a first appointment row with I2 and a later row
\* with I1, and the consolidated client 2 carries I2.
C7_Witness ==
    /\ pc = "done"
    /\ Len(aloha1.rows) = 2
    /\ aloha1.rows[1].Client_ID = 2 /\ aloha1.rows[1].Insurance_ID = "I2"
    /\ aloha1.rows[2].Client_ID = 2 /\ aloha1.rows[2].Insurance_ID = "I1"
    /\ \E k \in 1..Len(aloha_main.rows) :
          aloha_main.rows[k].Client_ID = 2 /\ aloha_main.rows[k].Insurance_ID = "I2"

\* C8: the consolidated table, and the final table built from it row by row,
\* hold exactly one row per Client ID of the roster, in ascending order of
\* Client ID.
C8_OneRowPerClientAscending ==
    /\ AfterConsolidate =>
          /\ {aloha_main.rows[k].Client_ID : k \in 1..Len(aloha_main.rows)} = RosterIds
          /\ Len(aloha_main.rows) = Cardinality(RosterIds)
          /\ \A j, k \in 1..Len(aloha_main.rows) :
                j < k => aloha_main.rows[j].Client_ID < aloha_main.rows[k].Client_ID
    /\ pc = "done" =>
          /\ Len(final) = Len(aloha_main.rows)
          /\ \A k \in 1..Len(final) :
                /\ final[k].Client = aloha_main.rows[k].Client
                /\ final[k].Aloha_Status = aloha_main.rows[k].Aloha_Status
                /\ final[k].Last_Date = aloha_main.rows[k].Last_Date

\* C8 witness: the roster lists client 2 before client 1, both share the
\* Insurance ID I1, and the output has client 1's row first and client 2's
\* row second.
C8_Witness ==
    /\ pc = "done"
    /\ Len(aloha2.rows) = 2
    /\ aloha2.rows[1] = [Client_ID |-> 2, Client |-> SmithCommaJohn, Status |-> "Paused"]
    /\ aloha2.rows[2] = [Client_ID |-> 1, Client |-> JohnSmith, Status |-> "Active"]
    /\ aloha_main.rows[1].Insurance_ID = "I1"
    /\ aloha_main.rows[2].Insurance_ID = "I1"
    /\ Len(final) = 2
    /\ final[1].Client = JohnSmith /\ final[1].Aloha_Status = "Active"
    /\ final[2].Client = SmithCommaJohn /\ final[2].Aloha_Status = "Paused"

(***************************************************************************)
(* Specification SpecSchema: the script on three data sets, each read with *)
(* every combination of present and absent columns.                        *)
(***************************************************************************)
\* a column that is absent holds no data
BlankAppts(rows, cols) ==
    [i \in 1..Len(rows) |->
        [Client_ID |-> IF "Client ID" \in cols THEN rows[i].Client_ID ELSE NoClient,
         Insurance_ID |-> IF "Insurance ID" \in cols THEN rows[i].Insurance_ID ELSE NA,
         Appt_Date |-> IF "Appt. Date" \in cols THEN rows[i].Appt_Date ELSE NA,
         Status |-> IF "Status" \in cols THEN rows[i].Status ELSE NullStr]]

BlankRoster(rows, cols) ==
    [i \in 1..Len(rows) |->
        [Client_ID |-> IF cols \cap {"Client ID", "Client Id"} # {}
                       THEN rows[i].Client_ID ELSE NoClient,
         Client |-> IF "Client" \in cols THEN rows[i].Client ELSE NullStr,
         Status |-> IF "Status" \in cols THEN rows[i].Status ELSE NA]]

BlankSource(rows, cols) ==
    [i \in 1..Len(rows) |->
        [Client |-> IF "Client" \in cols THEN rows[i].Client ELSE NullStr,
         Insurance_ID |-> IF "Insurance ID" \in cols THEN rows[i].Insurance_ID ELSE NA,
         Status |-> IF "Status" \in cols THEN rows[i].Status ELSE NA]]

\* clients matched by Insurance ID and by name; a row without Client ID, rows
\* without a name, an unparseable date
DataMatched ==
    [appts |-> << [Client_ID |-> 1, Insurance_ID |-> "I1", Appt_Date |-> "2023-01-01", Status |-> Completed],
                  [Client_ID |-> 1, Insurance_ID |-> "I1", Appt_Date |-> "n/a", Status |-> NoShow],
                  [Client_ID |-> 2, Insurance_ID |-> NA, Appt_Date |-> "06/15/2023", Status |-> NullStr] >>,
     roster |-> << [Client_ID |-> 1, Client |-> JohnSmith, Status |-> "Active"],
                   [Client_ID |-> NoClient, Client |-> NullStr, Status |-> NA],
                   [Client_ID |-> 2, Client |-> NullStr, Status |-> "Paused"] >>,
     zoho |-> ZohoRows,
     hirasmus |-> HiRasmusRows]

\* no client has an Insurance ID and no client matches a source entry
DataNoIdNoMatch ==
    [appts |-> << [Client_ID |-> 1, Insurance_ID |-> "I1", Appt_Date |-> "2023-01-01", Status |-> Completed] >>,
     roster |-> << [Client_ID |-> 2, Client |-> NullStr, Status |-> NA] >>,
     zoho |-> << [Client |-> JohnSmyth, Insurance_ID |-> "I1", Status |-> "Dropped"] >>,
     hirasmus |-> << [Client |-> JohnSmith, Insurance_ID |-> "I2", Status |-> "Active"] >>]

\* the client has an Insurance ID that no source holds and matches no entry
DataIdNoMatch ==
    [appts |-> << [Client_ID |-> 1, Insurance_ID |-> "I3", Appt_Date |-> "n/a", Status |-> Completed] >>,
     roster |-> << [Client_ID |-> 1, Client |-> NullStr, Status |-> "Active"] >>,
     zoho |-> << [Client |-> JohnSmyth, Insurance_ID |-> "I1", Status |-> "Dropped"] >>,
     hirasmus |-> << [Client |-> JohnSmith, Insurance_ID |-> "I2", Status |-> "Active"] >>]

RosterColChoices ==
    {idc \cup rest : idc \in {{}, {"Client ID"}, {"Client Id"}},
                     rest \in SUBSET {"Client", "Status"}}

InitSchema ==
    /\ PipeStart
    /\ \E d \in {DataMatched, DataNoIdNoMatch, DataIdNoMatch} :
       \E c1 \in SUBSET ApptCols, c2 \in RosterColChoices,
          cz \in SUBSET SourceCols, ch \in SUBSET SourceCols :
          /\ aloha1 = [cols |-> c1, rows |-> BlankAppts(d.appts, c1)]
          /\ aloha2 = [cols |-> c2, rows |-> BlankRoster(d.roster, c2)]
          /\ zoho = [cols |-> cz, rows |-> BlankSource(d.zoho, cz)]
          /\ hirasmus = [cols |-> ch, rows |-> BlankSource(d.hirasmus, ch)]

SpecSchema == InitSchema /\ [][Next]_vars

Finished == pc \in {"done", "failed"}

\* C9, as claimed: the run fails exactly when a required field (appointments:
\* Client ID, Insurance ID, Appt. Date; roster: Client ID, Client; external
\* source: Client, Insurance ID) is absent; a missing Status column never
\* aborts the run.
C9_OnlyRequiredAborts ==
    Finished =>
        (pc = "failed" <=>
            \/ ~({"Client ID", "Insurance ID", "Appt. Date"} \subseteq aloha1.cols)
            \/ ~({"Client ID", "Client"} \subseteq aloha2.cols)
            \/ ~({"Client", "Insurance ID"} \subseteq zoho.cols)
            \/ ~({"Client", "Insurance ID"} \subseteq hirasmus.cols))

\* some consolidated client carries a non-null Insurance ID
SomeClientHasId ==
    \E cid \in RosterIds :
       ApptIdx(cid) # {} /\ aloha1.rows[Min(ApptIdx(cid))].Insurance_ID # NA

\* some consolidated client is matched to an entry of source t
SomeClientMatches(t) ==
    \E k \in 1..Len(aloha_main.rows) : ~IsNone(fuzzy_match(aloha_main.rows[k], t.rows))

\* C9, amended: the run fails exactly when the appointments lack Client ID,
\* Insurance ID or Appt. Date, the roster lacks Client ID, Client or Status,
\* a source lacks Client, a source lacks Insurance ID while some client has a
\* non-null Insurance ID, or a source lacks Status while some client matches
\* an entry of it.  A run that finishes without the appointments' Status
\* column, with unparseable dates or with missing names has null outputs.
C9_AbortCondition ==
    /\ Finished =>
          (pc = "failed" <=>
              \/ ~({"Client ID", "Insurance ID", "Appt. Date"} \subseteq aloha1.cols)
              \/ ~({"Client ID", "Client", "Status"} \subseteq aloha2.cols)
              \/ "Client" \notin zoho.cols
              \/ "Client" \notin hirasmus.cols
              \/ \E t \in {zoho, hirasmus} : "Insurance ID" \notin t.cols /\ SomeClientHasId
              \/ \E t \in {zoho, hirasmus} : "Status" \notin t.cols /\ SomeClientMatches(t))
    /\ pc = "done" =>
          \A k \in 1..Len(final) :
             /\ aloha_main.rows[k].Insurance_ID = NA => final[k].Last_Date = NoDate
             /\ ServiceDates(aloha_main.rows[k].Insurance_ID) = {} => final[k].Last_Date = NoDate
             /\ (\A i \in RosterIdx(aloha_main.rows[k].Client_ID) :
                    aloha2.rows[i].Client = NullStr) => final[k].Client = NullStr
             /\ "Status" \notin zoho.cols => final[k].Zoho_Status = NA
             /\ "Status" \notin hirasmus.cols => final[k].HiRasmus_Status = NA

\* C9 witness: the appointments lack Status, source A lacks Status and
\* source B lacks Insurance ID, the only appointment date is unparseable and
\* the client has no name; no client has an Insurance ID or matches an entry,
\* and the run finishes with null outputs.
C9_Witness ==
    /\ pc = "done"
    /\ aloha1.cols = ApptCols \ {"Status"}
    /\ zoho.cols = {"Client", "Insurance ID", "norm_name"}
    /\ hirasmus.cols = {"Client", "Status", "norm_name"}
    /\ Len(final) = 1
    /\ final[1].Client = NullStr
    /\ final[1].Last_Date = NoDate
    /\ final[1].Zoho_Status = NA
    /\ final[1].HiRasmus_Status = NA

\* a roster that lacks only the Status column aborts the run
C9_RosterStatusAborts ==
    /\ pc = "failed"
    /\ aloha1.cols = ApptCols
    /\ aloha2.cols = {"Client ID", "Client"}
    /\ zoho.cols = SourceCols
    /\ hirasmus.cols = SourceCols

====
